---- MODULE Spec2Model ----
(***************************************************************************)
(* pdf2audio: text chunkers (src/tts_providers.py, processors.py) and the  *)
(* command-line pipeline with its job manifest (src/pdf2audio/cli.py).     *)
(*                                                                         *)
(* A Python str is a sequence of one-character strings.                    *)
(***************************************************************************)
EXTENDS Integers, Sequences, FiniteSets, TLC

\* ------------------------------------------------------------------------
\* Bounds of the chunker specification
\* ------------------------------------------------------------------------
MaxTextLen == 5
MaxMaxLength == 3

Alphabet == {"A", "B", ".", "!", " ", "\n"}

\* the scenario text of the sentence chunker: "A. B. C."
ScenarioText == <<"A", ".", " ", "B", ".", " ", "C", ".">>
ScenarioMaxLength == 4

Texts == UNION {[1..n -> Alphabet] : n \in 0..MaxTextLen}

\* ------------------------------------------------------------------------
\* Python str primitives used by the chunkers
\* ------------------------------------------------------------------------
IsSpace(c) == c \in {" ", "\n", "\t", "\r"}

Min(a, b) == IF a <= b THEN a ELSE b

Max(a, b) == IF a >= b THEN a ELSE b

RECURSIVE str_lstrip(_)
str_lstrip(s) ==
    IF s # <<>> /\ IsSpace(Head(s)) THEN str_lstrip(Tail(s)) ELSE s

RECURSIVE str_rstrip(_)
str_rstrip(s) ==
    IF s # <<>> /\ IsSpace(s[Len(s)])
    THEN str_rstrip(SubSeq(s, 1, Len(s) - 1))
    ELSE s

\* str.strip()
str_strip(s) == str_rstrip(str_lstrip(s))

\* str.replace(old, new) for one-character old and new
RECURSIVE str_replace(_, _, _)
str_replace(s, old, new) ==
    IF s = <<>> THEN <<>>
    ELSE <<IF Head(s) = old THEN new ELSE Head(s)>>
         \o str_replace(Tail(s), old, new)

\* str.split(sep) for a one-character sep: empty fields are kept
RECURSIVE str_split_sep(_, _, _)
str_split_sep(s, sep, field) ==
    IF s = <<>> THEN <<field>>
    ELSE IF Head(s) = sep
         THEN <<field>> \o str_split_sep(Tail(s), sep, <<>>)
         ELSE str_split_sep(Tail(s), sep, Append(field, Head(s)))

\* str.split(): fields separated by runs of whitespace, no empty field
RECURSIVE str_split_ws(_, _)
str_split_ws(s, field) ==
    IF s = <<>> THEN (IF field = <<>> THEN <<>> ELSE <<field>>)
    ELSE IF IsSpace(Head(s))
         THEN (IF field = <<>> THEN <<>> ELSE <<field>>)
              \o str_split_ws(Tail(s), <<>>)
         ELSE str_split_ws(Tail(s), Append(field, Head(s)))

str_split(s) == str_split_ws(s, <<>>)

\* "".join(parts)
RECURSIVE str_concat(_)
str_concat(parts) ==
    IF parts = <<>> THEN <<>> ELSE Head(parts) \o str_concat(Tail(parts))

\* ------------------------------------------------------------------------
\* chunk_text (src/tts_providers.py)
\* ------------------------------------------------------------------------

\* word_step with the remainder of a force-split word dropped
word_step_drop_remainder(st, word, max_length) ==
    IF Len(st.temp_chunk) + Len(word) + 1 > max_length
    THEN IF st.temp_chunk # <<>>
         THEN [chunks |-> Append(st.chunks, str_strip(st.temp_chunk)),
               temp_chunk |-> word]
         ELSE [chunks |-> Append(st.chunks,
                                 SubSeq(word, 1, Min(max_length, Len(word)))),
               temp_chunk |-> <<>>]
    ELSE [chunks |-> st.chunks,
          temp_chunk |-> IF st.temp_chunk # <<>>
                         THEN st.temp_chunk \o <<" ">> \o word
                         ELSE word]

\* one iteration of "for word in words", on (chunks, temp_chunk)
word_step(st, word, max_length) ==
    IF Len(st.temp_chunk) + Len(word) + 1 > max_length
    THEN IF st.temp_chunk # <<>>
         THEN [chunks |-> Append(st.chunks, str_strip(st.temp_chunk)),
               temp_chunk |-> word]
         ELSE \* single word is too long, force split
              [chunks |-> Append(st.chunks,
                                 SubSeq(word, 1, Min(max_length, Len(word)))),
               temp_chunk |-> SubSeq(word, max_length + 1, Len(word))]
    ELSE [chunks |-> st.chunks,
          temp_chunk |-> IF st.temp_chunk # <<>>
                         THEN st.temp_chunk \o <<" ">> \o word
                         ELSE word]

RECURSIVE pack_words(_, _, _)
pack_words(words, st, max_length) ==
    IF words = <<>> THEN st
    ELSE pack_words(Tail(words), word_step(st, Head(words), max_length),
                    max_length)

\* one iteration of "for sentence in sentences", on (chunks, current_chunk)
sentence_step(st, raw_sentence, max_length) ==
    LET stripped == str_strip(raw_sentence)
        sentence == stripped \o <<".">>
    IN  IF stripped = <<>> THEN st
        ELSE IF Len(st.current_chunk) + Len(sentence) > max_length
        THEN IF st.current_chunk # <<>>
             THEN [chunks |-> Append(st.chunks, str_strip(st.current_chunk)),
                   current_chunk |-> sentence]
             ELSE LET w == pack_words(str_split(sentence),
                                      [chunks |-> st.chunks,
                                       temp_chunk |-> <<>>],
                                      max_length)
                  IN  [chunks |-> w.chunks,
                       current_chunk |-> IF w.temp_chunk # <<>>
                                         THEN w.temp_chunk
                                         ELSE st.current_chunk]
        ELSE [chunks |-> st.chunks,
              current_chunk |-> IF st.current_chunk # <<>>
                                THEN st.current_chunk \o <<" ">> \o sentence
                                ELSE sentence]

RECURSIVE pack_sentences(_, _, _)
pack_sentences(sentences, st, max_length) ==
    IF sentences = <<>> THEN st
    ELSE pack_sentences(Tail(sentences),
                        sentence_step(st, Head(sentences), max_length),
                        max_length)

\* text.replace('!', '.').replace('?', '.').split('.')
split_sentences(text) ==
    str_split_sep(str_replace(str_replace(text, "!", "."), "?", "."),
                  ".", <<>>)

\* chunk_text with "<" for "<=" in the small-input test
chunk_text_strict_less(text, max_length) ==
    IF Len(text) < max_length THEN <<text>>
    ELSE LET st == pack_sentences(split_sentences(text),
                                  [chunks |-> <<>>, current_chunk |-> <<>>],
                                  max_length)
         IN  IF st.current_chunk # <<>>
             THEN Append(st.chunks, str_strip(st.current_chunk))
             ELSE st.chunks

\* chunk_text without the final "if current_chunk:" test
chunk_text_always_append(text, max_length) ==
    IF Len(text) <= max_length THEN <<text>>
    ELSE LET st == pack_sentences(split_sentences(text),
                                  [chunks |-> <<>>, current_chunk |-> <<>>],
                                  max_length)
         IN  Append(st.chunks, str_strip(st.current_chunk))

chunk_text(text, max_length) ==
    IF Len(text) <= max_length THEN <<text>>
    ELSE LET st == pack_sentences(split_sentences(text),
                                  [chunks |-> <<>>, current_chunk |-> <<>>],
                                  max_length)
         IN  IF st.current_chunk # <<>>
             THEN Append(st.chunks, str_strip(st.current_chunk))
             ELSE st.chunks

\* ------------------------------------------------------------------------
\* chunk_text_paragraph_sentence_word (src/pdf2audio/processors.py)
\* ------------------------------------------------------------------------

\* length of the longest whitespace prefix of s
RECURSIVE ws_run(_)
ws_run(s) == IF s # <<>> /\ IsSpace(Head(s)) THEN 1 + ws_run(Tail(s)) ELSE 0

\* index of the last "\n" among the first n characters of s (0 if none)
RECURSIVE last_newline(_, _)
last_newline(s, n) ==
    IF n = 0 THEN 0
    ELSE IF s[n] = "\n" THEN n ELSE last_newline(s, n - 1)

\* end of the match of \n\s*\n+ at the start of s, 0 if it does not match:
\* \s* is greedy and gives back until a newline follows, so the match runs
\* from the first newline to the last newline of the whitespace run
para_break_end(s) ==
    IF s # <<>> /\ Head(s) = "\n" /\ last_newline(s, ws_run(s)) > 1
    THEN last_newline(s, ws_run(s))
    ELSE 0

\* re.split(r"\n\s*\n+", text)
RECURSIVE re_split_paragraphs(_, _)
re_split_paragraphs(s, field) ==
    IF s = <<>> THEN <<field>>
    ELSE IF para_break_end(s) > 0
         THEN <<field>>
              \o re_split_paragraphs(SubSeq(s, para_break_end(s) + 1, Len(s)),
                                     <<>>)
         ELSE re_split_paragraphs(Tail(s), Append(field, Head(s)))

pack_sentence_word(s, max_length) == chunk_text(s, max_length)

\* the paragraph was too large and was split into pchunks: current is
\* flushed, the last subchunk stays open; pchunks[0] on an empty pchunks
\* raises IndexError
place_pchunks(st, pchunks) ==
    LET flushed == IF st.current # <<>> THEN Append(st.chunks, st.current)
                   ELSE st.chunks
    IN  IF Len(pchunks) > 1
        THEN [chunks |-> flushed \o SubSeq(pchunks, 1, Len(pchunks) - 1),
              current |-> pchunks[Len(pchunks)],
              raised |-> FALSE]
        ELSE IF Len(pchunks) = 1
        THEN [chunks |-> flushed, current |-> pchunks[1], raised |-> FALSE]
        ELSE [chunks |-> flushed, current |-> <<>>, raised |-> TRUE]

\* one iteration of "for para in paragraphs", on (chunks, current, raised)
para_step(st, raw_para, max_length) ==
    LET para == str_strip(raw_para)
        sep == IF st.current # <<>> THEN <<"\n", "\n">> ELSE <<>>
    IN  IF st.raised \/ para = <<>> THEN st
        ELSE IF st.current # <<>>
                /\ Len(st.current) + Len(sep) + Len(para) <= max_length
        THEN [st EXCEPT !.current = st.current \o sep \o para]
        ELSE IF Len(para) <= max_length /\ st.current = <<>>
        THEN [st EXCEPT !.current = para]
        ELSE place_pchunks(st, pack_sentence_word(para, max_length))

RECURSIVE pack_paragraphs(_, _, _)
pack_paragraphs(paragraphs, st, max_length) ==
    IF paragraphs = <<>> THEN st
    ELSE pack_paragraphs(Tail(paragraphs),
                         para_step(st, Head(paragraphs), max_length),
                         max_length)

\* the end of the paragraph loop: the open chunk is appended
paragraph_chunks(st) ==
    IF st.raised THEN [raised |-> TRUE, chunks |-> <<>>]
    ELSE [raised |-> FALSE,
          chunks |-> IF st.current # <<>>
                     THEN Append(st.chunks, st.current)
                     ELSE st.chunks]

\* the result is [raised, chunks]: raised means the call ended in IndexError
chunk_text_paragraph_sentence_word(text, max_length) ==
    IF Len(text) <= max_length
    THEN [raised |-> FALSE, chunks |-> <<text>>]
    ELSE paragraph_chunks(
             pack_paragraphs(re_split_paragraphs(text, <<>>),
                             [chunks |-> <<>>, current |-> <<>>,
                              raised |-> FALSE],
                             max_length))

\* ------------------------------------------------------------------------
\* preclean_text (src/pdf2audio/processors.py)
\* ------------------------------------------------------------------------
PrecleanMinRepeats == 3
PrecleanMaxLineLen == 80

\* str.splitlines(): lines end at "\n", "\r" or "\r\n"; no empty last line
RECURSIVE str_splitlines(_, _)
str_splitlines(s, line) ==
    IF s = <<>> THEN (IF line = <<>> THEN <<>> ELSE <<line>>)
    ELSE IF Head(s) = "\r" /\ Len(s) >= 2 /\ s[2] = "\n"
         THEN <<line>> \o str_splitlines(Tail(Tail(s)), <<>>)
    ELSE IF Head(s) \in {"\n", "\r"}
         THEN <<line>> \o str_splitlines(Tail(s), <<>>)
         ELSE str_splitlines(Tail(s), Append(line, Head(s)))

\* "\n".join(lines)
RECURSIVE join_lines(_)
join_lines(lines) ==
    IF lines = <<>> THEN <<>>
    ELSE IF Len(lines) = 1 THEN lines[1]
    ELSE lines[1] \o <<"\n">> \o join_lines(Tail(lines))

UpperLetters ==
    <<"A", "B", "C", "D", "E", "F", "G", "H", "I", "J", "K", "L", "M",
      "N", "O", "P", "Q", "R", "S", "T", "U", "V", "W", "X", "Y", "Z">>
LowerLetters ==
    <<"a", "b", "c", "d", "e", "f", "g", "h", "i", "j", "k", "l", "m",
      "n", "o", "p", "q", "r", "s", "t", "u", "v", "w", "x", "y", "z">>

\* str.lower()
str_lower(s) ==
    [i \in DOMAIN s |->
        IF \E k \in DOMAIN UpperLetters : UpperLetters[k] = s[i]
        THEN LowerLetters[CHOOSE k \in DOMAIN UpperLetters :
                              UpperLetters[k] = s[i]]
        ELSE s[i]]

IsDigit(c) == c \in {"0", "1", "2", "3", "4", "5", "6", "7", "8", "9"}

\* re.match(r"^\d+$", s)
all_digits(s) == s # <<>> /\ \A i \in DOMAIN s : IsDigit(s[i])

\* re.match(r"^(page\s+\d+(\s+of\s+\d+)?)$", low), low without outer blanks
is_page_number(low) ==
    LET w == str_split(low)
    IN  /\ Len(w) \in {2, 4}
        /\ w[1] = <<"p", "a", "g", "e">>
        /\ all_digits(w[2])
        /\ Len(w) = 4 => w[3] = <<"o", "f">> /\ all_digits(w[4])

\* re.match(r"^https?://\S+$", s)
is_url(s) ==
    LET n == IF Len(s) >= 5 /\ s[5] = "s" THEN 5 ELSE 4
    IN  /\ Len(s) > n + 3
        /\ SubSeq(s, 1, 4) = <<"h", "t", "t", "p">>
        /\ SubSeq(s, n + 1, n + 3) = <<":", "/", "/">>
        /\ \A i \in (n + 4)..Len(s) : ~IsSpace(s[i])

\* the number of lines whose stripped text is `stripped`
line_count(lines, stripped) ==
    Cardinality({i \in DOMAIN lines : str_strip(lines[i]) = stripped})

\* the lines preclean_text keeps, with blank lines made empty
RECURSIVE kept_lines(_, _, _, _)
kept_lines(lines, i, min_repeats, max_line_len) ==
    IF i > Len(lines) THEN <<>>
    ELSE LET stripped == str_strip(lines[i])
         IN  (IF stripped = <<>> THEN << <<>> >>
              ELSE IF Len(stripped) <= max_line_len
                      /\ line_count(lines, stripped) >= min_repeats
                   THEN <<>>
              ELSE IF is_page_number(str_lower(stripped)) THEN <<>>
              ELSE IF all_digits(stripped) THEN <<>>
              ELSE IF is_url(stripped) THEN <<>>
              ELSE <<lines[i]>>)
             \o kept_lines(lines, i + 1, min_repeats, max_line_len)

\* preclean_text(text, min_repeats, max_line_len)
preclean_text_with(t, min_repeats, max_line_len) ==
    join_lines(kept_lines(str_splitlines(t, <<>>), 1, min_repeats,
                          max_line_len))

\* preclean_text as ContentCleaner calls it, with the configuration defaults
preclean_text(t) ==
    preclean_text_with(t, PrecleanMinRepeats, PrecleanMaxLineLen)

\* ------------------------------------------------------------------------
\* Command-line pipeline (src/pdf2audio/cli.py): values
\* ------------------------------------------------------------------------
None == "None"

\* output stems: --mp3 <stem>.mp3, manifest <stem>.yml, artifacts <stem>/
Stems == {"out", "alt"}

\* a path below the artifact directory of a stem; NoPath is Python's None
Path(stem, kind) == [stem |-> stem, kind |-> kind]
NoPath == [stem |-> None, kind |-> None]

\* the options of the command line besides --pdf, --mp3 and --job
Options ==
    {"lang", "no_llm", "cleaner_llm", "ttsprovider", "use_ssml", "dry_run",
     "summarize"}

\* the values an option takes when it is given
OptionValue ==
    [lang |-> "es_la", no_llm |-> TRUE, cleaner_llm |-> "gemini",
     ttsprovider |-> "aws", use_ssml |-> TRUE, dry_run |-> TRUE,
     summarize |-> TRUE]

\* what argparse leaves in args for an option that is not given
OptionDefault ==
    [lang |-> None, no_llm |-> FALSE, cleaner_llm |-> None,
     ttsprovider |-> None, use_ssml |-> FALSE, dry_run |-> FALSE,
     summarize |-> FALSE]

\* the options and the outputs a user ever gives: MaxOptions different
\* options with one output, or no option with two outputs
MaxOptions == 3

Universes ==
    {[palette |-> p, stems |-> {"out"}] :
        p \in {q \in SUBSET Options : Cardinality(q) = MaxOptions}}
    \cup {[palette |-> {}, stems |-> Stems]}

\* the command line with the options `given` and the files pdf, mp3, job
Argv(pdf, mp3, job, given) ==
    [k \in Options \cup {"pdf", "mp3", "job"} |->
        IF k = "pdf" THEN pdf
        ELSE IF k = "mp3" THEN mp3
        ELSE IF k = "job" THEN job
        ELSE IF k \in given THEN OptionValue[k] ELSE OptionDefault[k]]

\* the command lines over a palette of options and a set of stems
ArgvSet(palette, stems) ==
    {Argv(pdf, mp3, job, given) :
        pdf \in {None, "doc.pdf"}, mp3 \in {None} \cup stems,
        job \in {None} \cup stems, given \in SUBSET palette}

\* the options of a command line, without its files
OptionsOf(a) == [a EXCEPT !.pdf = None, !.mp3 = None, !.job = None]

\* the text of the pages of doc.pdf: "A. BB.", or a scan without text, or
\* a row of dots longer than a TTS chunk
DocText == <<"A", ".", " ", "B", "B", ".">>
DotsText == <<".", ".", ".", ".", ".">>
Pages == {DocText, <<" ">>, DotsText}

\* Config property defaults
DefaultConfig ==
    [tts_provider |-> "gtts", llm_provider |-> "openai",
     default_language |-> "en", use_ssml |-> FALSE,
     chunk_strategy |-> "paragraph_sentence_word"]

LlmMaxChunkChars == 20000

\* tts.language_mappings of the configuration file
LanguageMappings == [l \in {"es_la"} |-> "es"]

\* Config.get_language_mapping
get_language_mapping(lang_code) ==
    IF lang_code \in DOMAIN LanguageMappings
    THEN LanguageMappings[lang_code]
    ELSE lang_code

\* provider.get_max_chunk_size(is_ssml): the provider's input limit, which
\* is smaller with SSML; scaled down to the size of the model's texts
get_max_chunk_size(is_ssml) == IF is_ssml THEN 3 ELSE 4

\* f with f[k] set to v, k added to the domain if need be
Put(f, k, v) == [x \in DOMAIN f \cup {k} |-> IF x = k THEN v ELSE f[x]]

\* ------------------------------------------------------------------------
\* The LLM and the PDF library, as seen through their interfaces
\* ------------------------------------------------------------------------

\* index of the first period of s, or Len(s) if there is none
RECURSIVE first_period(_, _)
first_period(s, i) ==
    IF i >= Len(s) THEN Len(s)
    ELSE IF s[i] = "." THEN i ELSE first_period(s, i + 1)

\* The provider calls of one ContentCleaner method are numbered 1, 2, ... in
\* the order they are made; `fails` is the set of the numbers of the calls
\* whose request to the model fails. Every provider method catches the
\* failure and returns its input (llm_providers.py, `except Exception`).

\* provider.clean_text: the model's answer keeps the first sentence; a
\* failing call returns its input
clean_text(piece, llm_up) ==
    IF piece = <<>> \/ ~llm_up THEN piece
    ELSE SubSeq(piece, 1, first_period(piece, 1))

\* provider.summarize_text: the model's answer keeps the last three
\* characters; a failing call returns its input
summarize_text(piece, llm_up) ==
    IF piece = <<>> \/ ~llm_up \/ Len(piece) <= 3 THEN piece
    ELSE SubSeq(piece, Len(piece) - 2, Len(piece))

\* provider.merge_summaries: the model's answer keeps the first word; a
\* failing call returns its input
provider_merge_summaries(joined, llm_up) ==
    IF joined = <<>> \/ ~llm_up \/ str_split(joined) = <<>> THEN joined
    ELSE str_split(joined)[1]

\* provider.expand_summary: the model's answer says the summary twice; a
\* failing call returns the summary
provider_expand_summary(summary, llm_up) ==
    IF ~llm_up THEN summary ELSE summary \o <<" ">> \o summary

\* provider.apply_ssml: the model's answer wraps the text in a speak tag
provider_apply_ssml(piece, llm_up) ==
    IF piece = <<>> \/ ~llm_up THEN piece
    ELSE <<"<speak>">> \o piece \o <<"</speak>">>

\* "\n\n".join(parts)
RECURSIVE join_paragraphs(_)
join_paragraphs(parts) ==
    IF parts = <<>> THEN <<>>
    ELSE IF Len(parts) = 1 THEN parts[1]
    ELSE parts[1] \o <<"\n", "\n">> \o join_paragraphs(Tail(parts))

\* the pieces ContentCleaner hands to the LLM (llm.preclean, chunk_strategy
\* paragraph_sentence_word, llm.max_chunk_chars): [raised, chunks]
llm_pieces(t, max_chunk_chars) ==
    chunk_text_paragraph_sentence_word(preclean_text(t), max_chunk_chars)

\* The result of a ContentCleaner method is [raised, text, calls, log]:
\* raised means the piece chunker ended in IndexError, log is the sequence
\* of the provider calls made, each with its method, input and output, and
\* calls is their number.
MethodRaised == [raised |-> TRUE, text |-> <<>>, calls |-> 0, log |-> <<>>]

MethodReturned(t, log) ==
    [raised |-> FALSE, text |-> t, calls |-> Len(log), log |-> log]

\* one call of a provider method
ProviderCall(method, input, output) ==
    [method |-> method, input |-> input, output |-> output]

\* the outputs of a sequence of calls
outputs_of(log) == [i \in DOMAIN log |-> log[i].output]

\* processors.py lines 63-66: one clean_text call per piece
clean_calls(pieces, fails) ==
    [i \in DOMAIN pieces |->
        ProviderCall("clean_text", pieces[i],
                     clean_text(pieces[i], i \notin fails))]

\* lines 62-68: each piece cleaned, the answers joined
clean_pieces(r, fails) ==
    IF r.raised THEN MethodRaised
    ELSE MethodReturned(join_paragraphs(outputs_of(clean_calls(r.chunks, fails))),
                        clean_calls(r.chunks, fails))

\* ContentCleaner.clean
ContentCleaner_clean(t, max_chunk_chars, fails) ==
    IF t = <<>> THEN MethodReturned(t, <<>>)
    ELSE clean_pieces(llm_pieces(t, max_chunk_chars), fails)

\* llm.min_summary_ratio and llm.summary_ratio_tolerance, in percent
MinSummaryRatioPct == 45
SummaryRatioTolerancePct == 90

\* len(s.split())
word_count(s) == Len(str_split(s))

\* lines 129-131: max(1, int(total_words * min_ratio))
target_words_of(total_words) ==
    Max(1, (total_words * MinSummaryRatioPct) \div 100)

\* lines 166-167: int(target_words * tolerance)
min_merged_words(target_words) ==
    (target_words * SummaryRatioTolerancePct) \div 100

\* lines 137-150: one summarize_text call per piece
summarize_calls(pieces, fails) ==
    [i \in DOMAIN pieces |->
        ProviderCall("summarize_text", pieces[i],
                     summarize_text(pieces[i], i \notin fails))]

\* the merged summary is never expanded
expand_never(log, merged, target_words, fails) == MethodReturned(merged, log)

\* lines 165-179: the merged summary is expanded, once, if it is too short
expand_if_short(log, merged, target_words, fails) ==
    IF word_count(merged) < min_merged_words(target_words)
    THEN MethodReturned(
             provider_expand_summary(merged, (Len(log) + 1) \notin fails),
             Append(log, ProviderCall(
                             "expand_summary", merged,
                             provider_expand_summary(
                                 merged, (Len(log) + 1) \notin fails))))
    ELSE MethodReturned(merged, log)

\* lines 155-163: one merge_summaries call on the joined summaries
merge_call(joined, k, fails) ==
    ProviderCall("merge_summaries", joined,
                 provider_merge_summaries(joined, k \notin fails))

\* lines 152-179: one summary is the result; otherwise the summaries are
\* merged by the provider and the merged summary expanded if it is short
merge_summaries(summaries, target_words, fails) ==
    IF Len(summaries) = 1 THEN MethodReturned(summaries[1].output, summaries)
    ELSE expand_if_short(
             Append(summaries,
                    merge_call(join_paragraphs(outputs_of(summaries)),
                               Len(summaries) + 1, fails)),
             merge_call(join_paragraphs(outputs_of(summaries)),
                        Len(summaries) + 1, fails).output,
             target_words, fails)

\* each piece summarized, the summaries merged
summarize_pieces(r, target_words, fails) ==
    IF r.raised THEN MethodRaised
    ELSE merge_summaries(summarize_calls(r.chunks, fails), target_words,
                         fails)

\* ContentCleaner.summarize
ContentCleaner_summarize(t, max_chunk_chars, fails) ==
    IF t = <<>> THEN MethodReturned(t, <<>>)
    ELSE summarize_pieces(llm_pieces(t, max_chunk_chars),
                          target_words_of(word_count(preclean_text(t))),
                          fails)

\* the pieces ContentCleaner.apply_ssml hands to the LLM: no preclean
ssml_pieces(t, max_chunk_chars) ==
    chunk_text_paragraph_sentence_word(t, max_chunk_chars)

\* lines 98-101: one apply_ssml call per piece
ssml_calls(pieces, fails) ==
    [i \in DOMAIN pieces |->
        ProviderCall("apply_ssml", pieces[i],
                     provider_apply_ssml(pieces[i], i \notin fails))]

\* each piece tagged, the answers joined
tag_pieces(r, fails) ==
    IF r.raised THEN MethodRaised
    ELSE MethodReturned(join_paragraphs(outputs_of(ssml_calls(r.chunks, fails))),
                        ssml_calls(r.chunks, fails))

\* ContentCleaner.apply_ssml
ContentCleaner_apply_ssml(t, max_chunk_chars, fails) ==
    IF t = <<>> THEN MethodReturned(t, <<>>)
    ELSE tag_pieces(ssml_pieces(t, max_chunk_chars), fails)

\* the most provider calls of one ContentCleaner method that can fail
MaxLlmCalls == 5

\* the calls that fail while the LLM service is up, and while it is down
llm_failures(llm_up) == IF llm_up THEN {} ELSE 1..MaxLlmCalls

\* PDFProcessor.extract_text_from_pdf: the page texts, stripped
extract_text_from_pdf(pages) == str_strip(pages)

\* ------------------------------------------------------------------------
\* Chunker specification: a text and a max_length are drawn, then one of
\* the two chunkers is applied to them.
\* ------------------------------------------------------------------------
VARIABLES text, max_length, called, chunks, raised

cvars == <<text, max_length, called, chunks, raised>>

\* ------------------------------------------------------------------------
\* Pipeline state
\*   fs      the files: raw, cleaned, summary text and the manifest of
\*           each stem (a function on the stems whose file exists), the
\*           chunk files of each stem, the stems whose ssml text exists, the
\*           stems whose manifest file is partial (opened for writing and
\*           not yet completely written)
\*   env     what the run cannot control: whether the LLM answers, the
\*           text of the PDF's pages, the options and outputs the user gives
\*   main    the locals of cli.main() of the current invocation, and of
\*           the job file it was given: the artifacts that existed when the
\*           run started (job_files), the options of its writer (job_writer);
\*           what the run did: the provider calls it made (calls), the
\*           objects it constructed, the artifact files it wrote (produced),
\*           whether it wrote the mp3 (audio), why it ended with exit code
\*           1 (fatal) and the step an interrupt arrived at (interrupted_at)
\*   writer  for each manifest, the options of the run that wrote it
\* ------------------------------------------------------------------------
VARIABLES fs, env, main, writer

pvars == <<fs, env, main, writer>>

\* A ContentCleaner method called on its own: the text and
\* llm.max_chunk_chars it is given, the provider calls that fail, the method
\* called and its result with the log of the provider calls it made.
VARIABLES cleaner

lvars == <<cleaner>>

\* The functions and objects checked on their own: a preclean_text call
\* (pre), a TTS provider's synthesize call (synth) and a Config object
\* (conf).
VARIABLES pre, synth, conf

xvars == <<pre, synth, conf>>

vars == <<cvars, pvars, lvars, xvars>>

NoManifest ==
    [inputs |-> [pdf |-> None], outputs |-> [mp3 |-> None],
     params |-> [lang |-> None, tts_provider |-> None, llm_provider |-> None,
                 use_ssml |-> FALSE, summarize |-> FALSE,
                 llm |-> [chunk_strategy |-> None, max_chunk_chars |-> 0]],
     artifacts |-> [artifact_dir |-> None, raw_text |-> NoPath,
                    cleaned_text |-> NoPath, summary_text |-> NoPath,
                    ssml_text |-> NoPath, chunks_dir |-> None,
                    chunks |-> <<>>]]

NoArgs ==
    [pdf |-> None, mp3 |-> None, job |-> None, lang |-> None,
     no_llm |-> FALSE, cleaner_llm |-> None, ttsprovider |-> None,
     use_ssml |-> FALSE, dry_run |-> FALSE, summarize |-> FALSE]

NoCalls == [extract |-> 0, clean |-> 0, summarize |-> 0, ssml |-> 0, tts |-> 0]

\* the locals of main() before anything ran
IdleMain ==
    [pc |-> "idle", exit_code |-> 0, argv |-> NoArgs, args |-> NoArgs,
     config |-> DefaultConfig, content_cleaner |-> FALSE,
     job_data |-> <<>>, job_files |-> {}, job_writer |-> <<>>,
     stem |-> None,
     text |-> <<>>, processed_text |-> <<>>, processed_output_path |-> NoPath,
     chunks |-> <<>>, chunk_files |-> <<>>, final_chunks |-> <<>>,
     tts_language |-> None, written |-> <<>>, calls |-> NoCalls,
     constructed |-> {}, produced |-> {}, audio |-> FALSE,
     fatal |-> None, interrupted_at |-> None]

EmptyFs ==
    [raw |-> <<>>, cleaned |-> <<>>, summary |-> <<>>, ssml |-> {},
     manifest |-> <<>>, partial |-> {}, chunks |-> [s \in Stems |-> <<>>]]

IdlePipeline ==
    /\ fs = EmptyFs
    /\ writer = <<>>
    /\ env = [llm_up |-> TRUE, pages |-> DocText,
              universe |-> [palette |-> {}, stems |-> {}]]
    /\ main = IdleMain

\* no preclean_text call yet
IdlePre ==
    pre = [text |-> <<>>, min_repeats |-> PrecleanMinRepeats,
           max_line_len |-> PrecleanMaxLineLen, called |-> "none",
           out |-> <<>>, again |-> <<>>]

\* no synthesize call yet: its text and the configured speaking rate (in
\* hundredths), the step it is at, the chunks of the text, the index of the
\* chunk at hand, temp_files, the per-chunk files on disk, whether the
\* output file exists, the TTS requests issued, and how the call ended
IdleSynthCall ==
    [text |-> <<>>, speaking_rate |-> 100, pc |-> "idle", chunks |-> <<>>,
     i |-> 0, temp_files |-> <<>>, disk |-> {}, output |-> FALSE,
     requests |-> 0, failed |-> FALSE, error |-> "None"]

IdleSynth == synth = IdleSynthCall

\* no Config constructed yet: the package's default file, the keys and the
\* values of the user (or --config) file (missing = TRUE if there is no such
\* file), the CLI flags, the loaded _config, the language recorded in the
\* manifest and the language given to the TTS provider
IdleConfig ==
    [pc |-> "idle", default_file |-> <<>>, missing |-> TRUE,
     user_keys |-> {}, user_file |-> <<>>,
     args |-> [cleaner_llm |-> None, ttsprovider |-> None, lang |-> None],
     config |-> <<>>, manifest_lang |-> None, tts_language |-> None]

IdleConf == conf = IdleConfig

IdleOthers == IdlePre /\ IdleSynth /\ IdleConf

IdleCleaner ==
    cleaner = [text |-> <<>>, max_chunk_chars |-> 1, fails |-> {},
               called |-> "none", result |-> MethodReturned(<<>>, <<>>)]

IdleChunker ==
    /\ text = <<>>
    /\ max_length = 1
    /\ called = "none"
    /\ chunks = <<>>
    /\ raised = FALSE

InitChunker ==
    /\ \/ text \in Texts /\ max_length \in 1..MaxMaxLength
       \/ text = ScenarioText /\ max_length = ScenarioMaxLength
    /\ called = "none"
    /\ chunks = <<>>
    /\ raised = FALSE
    /\ IdlePipeline
    /\ IdleCleaner
    /\ IdleOthers

CallChunkText ==
    /\ called = "none"
    /\ called' = "chunk_text"
    /\ chunks' = chunk_text(text, max_length)
    /\ raised' = FALSE
    /\ UNCHANGED <<text, max_length, pvars, lvars, xvars>>

CallChunkParagraph ==
    /\ called = "none"
    /\ called' = "chunk_text_paragraph_sentence_word"
    /\ LET r == chunk_text_paragraph_sentence_word(text, max_length)
       IN  chunks' = r.chunks /\ raised' = r.raised
    /\ UNCHANGED <<text, max_length, pvars, lvars, xvars>>

NextChunker == CallChunkText \/ CallChunkParagraph

SpecChunker == InitChunker /\ [][NextChunker]_vars

\* ------------------------------------------------------------------------
\* The ContentCleaner methods, called on texts of paragraphs
\* ------------------------------------------------------------------------

\* the paragraphs of a text: a sentence and a half, three words, a row of
\* sentence terminators
LlmParagraphs ==
    {<<"a", ".", "b">>, <<"c", " ", "d", " ", "e">>,
     <<".", ".", ".", ".", ".", ".">>}

MaxParagraphs == 3

\* the empty text and the texts of 1..MaxParagraphs paragraphs
LlmTexts ==
    {<<>>} \cup
    {join_paragraphs(ps) :
        ps \in UNION {[1..n -> LlmParagraphs] : n \in 1..MaxParagraphs}}

\* llm.max_chunk_chars: a paragraph of words fits, or two paragraphs fit
LlmChunkChars == {5, 12}

InitCleaner ==
    /\ cleaner \in [text : LlmTexts, max_chunk_chars : LlmChunkChars,
                     fails : SUBSET (1..MaxLlmCalls), called : {"none"},
                     result : {MethodReturned(<<>>, <<>>)}]
    /\ IdleChunker
    /\ IdlePipeline
    /\ IdleOthers

CallClean ==
    /\ cleaner.called = "none"
    /\ cleaner' = [cleaner EXCEPT
                      !.called = "clean",
                      !.result = ContentCleaner_clean(
                                     cleaner.text, cleaner.max_chunk_chars,
                                     cleaner.fails)]
    /\ UNCHANGED <<cvars, pvars, xvars>>

CallSummarize ==
    /\ cleaner.called = "none"
    /\ cleaner' = [cleaner EXCEPT
                      !.called = "summarize",
                      !.result = ContentCleaner_summarize(
                                     cleaner.text, cleaner.max_chunk_chars,
                                     cleaner.fails)]
    /\ UNCHANGED <<cvars, pvars, xvars>>

CallApplySsml ==
    /\ cleaner.called = "none"
    /\ cleaner' = [cleaner EXCEPT
                      !.called = "apply_ssml",
                      !.result = ContentCleaner_apply_ssml(
                                     cleaner.text, cleaner.max_chunk_chars,
                                     cleaner.fails)]
    /\ UNCHANGED <<cvars, pvars, xvars>>

NextCleaner == CallClean \/ CallSummarize \/ CallApplySsml

SpecCleaner == InitCleaner /\ [][NextCleaner]_vars

\* ------------------------------------------------------------------------
\* Pipeline specification: invocations of cli.main(), one after the other,
\* on the same file system.
\* ------------------------------------------------------------------------

\* the file a manifest path names exists
PathExists(files, path) ==
    /\ path # NoPath
    /\ IF path.kind = "ssml" THEN path.stem \in files.ssml
       ELSE path.stem \in DOMAIN files[path.kind]

\* the artifacts a manifest names whose file exists
ExistingArtifacts(files, manifest) ==
    {k \in {"raw_text", "cleaned_text", "summary_text", "ssml_text"} :
        PathExists(files, manifest.artifacts[k])}

ReadFile(files, path) == files[path.kind][path.stem]

\* validate_arguments
validate_arguments(a, files) ==
    IF a.job = None
    THEN a.pdf # None /\ a.mp3 # None   \* doc.pdf exists
    ELSE a.job \in DOMAIN files.manifest

\* no summarize requirement at all
summarize_allowed_always(a) == TRUE

\* the summarize requirements, cli.py lines 143-149
summarize_allowed(a) ==
    ~(a.summarize /\ (a.no_llm \/ a.cleaner_llm = None))

\* the configuration after the command-line overrides, lines 153-177
config_from_args(a) ==
    [DefaultConfig EXCEPT
        !.llm_provider = IF a.cleaner_llm # None THEN a.cleaner_llm ELSE @,
        !.tts_provider = IF a.ttsprovider # None THEN a.ttsprovider ELSE @,
        !.default_language = IF a.lang # None
                             THEN get_language_mapping(a.lang) ELSE @,
        !.use_ssml = IF a.use_ssml THEN TRUE ELSE @]

\* args after dry-run forcing only, without the SSML guard
flags_after_guards_any_provider(a, cfg) ==
    [a EXCEPT
        !.no_llm = a.no_llm \/ a.dry_run,
        !.use_ssml = a.use_ssml /\ ~a.dry_run]

\* args after dry-run forcing (179-182) and the SSML guard (192-194)
flags_after_guards(a, cfg) ==
    [a EXCEPT
        !.no_llm = a.no_llm \/ a.dry_run,
        !.use_ssml = a.use_ssml /\ ~a.dry_run
                     /\ cfg.tts_provider \in {"aws", "google"}]

\* args.mp3 and args.pdf filled in from the job file, lines 198-205
args_with_job_io(a, job) ==
    [a EXCEPT
        !.mp3 = IF a.mp3 = None /\ job # <<>> THEN job[1].outputs.mp3 ELSE @,
        !.pdf = IF a.pdf = None /\ job # <<>> THEN job[1].inputs.pdf ELSE @]

\* lines 153 and 187-189: the configuration and the processors main()
\* constructs; the LLM and TTS providers are constructed on first use
constructed_processors(args) ==
    {"config", "pdf_processor", "tts_processor"}
    \cup (IF args.no_llm THEN {} ELSE {"content_cleaner"})

\* lines 130-216: parse and validate, configure, load the job file; a job
\* file that names no mp3 leaves Path(args.mp3) without a path
StartRun ==
    /\ main.pc = "idle"
    /\ \E a \in ArgvSet(env.universe.palette, env.universe.stems) :
         LET cfg == config_from_args(a)
             job == IF a.job # None /\ a.job \in DOMAIN fs.manifest
                    THEN <<fs.manifest[a.job]>> ELSE <<>>
             args == args_with_job_io(flags_after_guards(a, cfg), job)
         IN  IF ~validate_arguments(a, fs) \/ ~summarize_allowed(a)
             THEN main' = [IdleMain EXCEPT
                              !.pc = "done", !.exit_code = 1,
                              !.argv = a, !.args = a,
                              !.fatal = IF ~validate_arguments(a, fs)
                                        THEN "arguments" ELSE "summarize"]
             ELSE main' = [IdleMain EXCEPT
                              !.pc = IF args.mp3 = None THEN "done"
                                     ELSE "source",
                              !.exit_code = IF args.mp3 = None THEN 1 ELSE 0,
                              !.fatal = IF args.mp3 = None THEN "job"
                                        ELSE None,
                              !.argv = a, !.args = args,
                              !.config = cfg,
                              !.content_cleaner = ~args.no_llm,
                              !.constructed = constructed_processors(args),
                              !.job_data = job,
                              !.job_files =
                                  IF job = <<>> THEN {}
                                  ELSE ExistingArtifacts(fs, job[1]),
                              !.job_writer =
                                  IF job = <<>> \/ a.job \in fs.partial
                                  THEN <<>> ELSE <<writer[a.job]>>,
                              !.stem = args.mp3]
    /\ UNCHANGED <<fs, env, writer, cvars, lvars, xvars>>

\* line 220: the job names a raw text file that exists
loads_raw_text_never(job, files) == FALSE

loads_raw_text_from_job(job, files) ==
    /\ job # <<>>
    /\ job[1].artifacts.raw_text # NoPath
    /\ PathExists(files, job[1].artifacts.raw_text)

\* lines 217-235: the raw text comes from the job's raw_text file if the job
\* names one that exists, else from the PDF, and is then saved; the PDF
\* library can raise; empty text ends the run
SourceText ==
    /\ main.pc = "source"
    /\ LET job == main.job_data
           raw_output_path == Path(main.stem, "raw")
       IN  IF loads_raw_text_from_job(job, fs)
           THEN LET t == ReadFile(fs, job[1].artifacts.raw_text)
                IN  /\ main' = [main EXCEPT
                                   !.text = t,
                                   !.pc = IF str_strip(t) = <<>>
                                          THEN "done" ELSE "clean",
                                   !.exit_code = IF str_strip(t) = <<>>
                                                 THEN 1 ELSE 0,
                                   !.fatal = IF str_strip(t) = <<>>
                                             THEN "no_text" ELSE None]
                    /\ fs' = fs
           ELSE \E raises \in BOOLEAN :
                  LET t == extract_text_from_pdf(env.pages)
                      calls == [main.calls EXCEPT !.extract = @ + 1]
                  IN  IF raises \/ main.args.pdf = None
                      THEN /\ main' = [main EXCEPT !.pc = "done",
                                          !.exit_code = 1, !.calls = calls,
                                          !.fatal = "extract"]
                           /\ fs' = fs
                      ELSE /\ main' = [main EXCEPT
                                          !.text = t, !.calls = calls,
                                          !.produced = @ \cup {raw_output_path},
                                          !.pc = IF str_strip(t) = <<>>
                                                 THEN "done" ELSE "clean",
                                          !.exit_code = IF str_strip(t) = <<>>
                                                        THEN 1 ELSE 0,
                                          !.fatal = IF str_strip(t) = <<>>
                                                    THEN "no_text" ELSE None]
                           /\ fs' = [fs EXCEPT
                                       !.raw = Put(@, main.stem, t)]
    /\ UNCHANGED <<env, writer, cvars, lvars, xvars>>

\* lines 244-250, 264-266: the locals after the LLM stage gave r
after_llm(m, r) ==
    IF r.raised
    THEN [m EXCEPT !.pc = "done", !.exit_code = 1, !.fatal = "cleaner",
                   !.constructed = @ \cup {"llm_provider"}]
    ELSE [m EXCEPT
             !.processed_text = r.text,
             !.processed_output_path =
                 Path(m.stem, IF m.args.summarize THEN "summary"
                              ELSE "cleaned"),
             !.produced = @ \cup {Path(m.stem, IF m.args.summarize
                                               THEN "summary" ELSE "cleaned")},
             !.constructed = @ \cup {"llm_provider"},
             !.calls = IF m.args.summarize
                       THEN [@ EXCEPT !.summarize = @ + r.calls]
                       ELSE [@ EXCEPT !.clean = @ + r.calls],
             !.pc = "chunk"]

\* without the LLM the raw text always goes on
without_llm_raw_only(m, files) ==
    [m EXCEPT !.processed_text = m.text, !.pc = "chunk"]

\* lines 251-261: without the LLM, the job's cleaned or summary text is
\* reused if the job names one that exists, else the raw text goes on
without_llm(m, files) ==
    LET job_art == IF m.job_data # <<>> THEN m.job_data[1].artifacts
                   ELSE NoManifest.artifacts
        candidate == IF job_art.cleaned_text # NoPath
                     THEN job_art.cleaned_text
                     ELSE job_art.summary_text
    IN  [m EXCEPT !.processed_text = IF PathExists(files, candidate)
                                     THEN ReadFile(files, candidate)
                                     ELSE m.text,
                  !.pc = "chunk"]

\* lines 263-269: the processed text is saved if the LLM was used
save_processed(files, m) ==
    IF m.processed_output_path = NoPath THEN files
    ELSE [files EXCEPT ![m.processed_output_path.kind] =
                           Put(@, m.stem, m.processed_text)]

\* lines 243-269: summarize or clean with the LLM and save the result, or
\* reuse the job's cleaned or summary text, or go on with the raw text
CleanOrSummarize ==
    /\ main.pc = "clean"
    /\ IF main.content_cleaner
       THEN main' = after_llm(main,
                              IF main.args.summarize
                              THEN ContentCleaner_summarize(
                                       main.text, LlmMaxChunkChars,
                                       llm_failures(env.llm_up))
                              ELSE ContentCleaner_clean(
                                       main.text, LlmMaxChunkChars,
                                       llm_failures(env.llm_up)))
       ELSE main' = without_llm(main, fs)
    /\ fs' = save_processed(fs, main')
    /\ UNCHANGED <<env, writer, cvars, lvars, xvars>>

\* the chunk files after n chunk_i.txt files were written over them
write_chunk_files(old, new) ==
    [i \in 1..Max(Len(old), Len(new)) |->
        IF i <= Len(new) THEN new[i] ELSE old[i]]

\* line 279: the path of chunk_<i>.txt in the chunk directory of a stem
chunk_path(stem, i) == [stem |-> stem, kind |-> "chunk", index |-> i]

\* lines 271-283: chunk the processed text and save every chunk; the
\* chunk size is asked of the TTS provider, which is constructed for it
ChunkAndSave ==
    /\ main.pc = "chunk"
    /\ LET cs == chunk_text(main.processed_text,
                            get_max_chunk_size(main.args.use_ssml))
       IN  /\ main' = [main EXCEPT
                         !.chunks = cs,
                         !.chunk_files = [i \in DOMAIN cs |->
                                             chunk_path(main.stem, i - 1)],
                         !.produced = @ \cup {chunk_path(main.stem, i - 1) :
                                                 i \in DOMAIN cs},
                         !.constructed = @ \cup {"tts_provider"},
                         !.pc = "ssml"]
           /\ fs' = [fs EXCEPT
                       !.chunks[main.stem] = write_chunk_files(@, cs)]
    /\ UNCHANGED <<env, writer, cvars, lvars, xvars>>

\* lines 291-296: the locals after every chunk was tagged
after_ssml(m, tagged) ==
    IF \E i \in DOMAIN tagged : tagged[i].raised
    THEN [m EXCEPT !.pc = "done", !.exit_code = 1, !.fatal = "ssml"]
    ELSE [m EXCEPT !.final_chunks = [i \in DOMAIN tagged |-> tagged[i].text],
                   !.calls.ssml = @ + Len(tagged),
                   !.produced = @ \cup {Path(m.stem, "ssml")}]

\* every run goes on to the synthesis
after_chunks_final_always_synth(m) ==
    IF m.pc = "done" THEN m ELSE [m EXCEPT !.pc = "synth"]

\* lines 301-302, 336: a dry run goes on to its manifest, a full run to
\* the synthesis
after_chunks_final(m) ==
    IF m.pc = "done" THEN m
    ELSE [m EXCEPT !.pc = IF m.argv.dry_run THEN "dry_manifest" ELSE "synth"]

\* lines 285-299: tag the chunks with SSML if enabled and a cleaner exists,
\* and save the SSML text
ApplySsml ==
    /\ main.pc = "ssml"
    /\ main' = after_chunks_final(
                   IF main.args.use_ssml /\ main.content_cleaner
                   THEN after_ssml(main,
                                   [i \in DOMAIN main.chunks |->
                                       ContentCleaner_apply_ssml(
                                           main.chunks[i], LlmMaxChunkChars,
                                           llm_failures(env.llm_up))])
                   ELSE [main EXCEPT !.final_chunks = main.chunks])
    /\ fs' = IF main.args.use_ssml /\ main.content_cleaner
                /\ main'.pc # "done"
             THEN [fs EXCEPT !.ssml = @ \cup {main.stem}]
             ELSE fs
    /\ UNCHANGED <<env, writer, cvars, lvars, xvars>>

\* a manifest that leaves out the SSML text
job_manifest_without_ssml(m) ==
    [inputs |-> [pdf |-> m.args.pdf],
     outputs |-> [mp3 |-> m.stem],
     params |-> [lang |-> m.config.default_language,
                 tts_provider |-> m.config.tts_provider,
                 llm_provider |-> IF m.content_cleaner
                                  THEN m.config.llm_provider ELSE None,
                 use_ssml |-> m.args.use_ssml,
                 summarize |-> m.args.summarize,
                 llm |-> [chunk_strategy |-> m.config.chunk_strategy,
                          max_chunk_chars |-> LlmMaxChunkChars]],
     artifacts |->
        [artifact_dir |-> m.stem,
         raw_text |-> Path(m.stem, "raw"),
         cleaned_text |-> IF m.processed_output_path # NoPath
                             /\ ~m.args.summarize
                          THEN m.processed_output_path ELSE NoPath,
         summary_text |-> IF m.processed_output_path # NoPath
                             /\ m.args.summarize
                          THEN m.processed_output_path ELSE NoPath,
         ssml_text |-> NoPath,
         chunks_dir |-> m.stem,
         chunks |-> m.chunk_files]]

\* the manifest main() builds, lines 307-330 and 345-368
job_manifest(m) ==
    [inputs |-> [pdf |-> m.args.pdf],
     outputs |-> [mp3 |-> m.stem],
     params |-> [lang |-> m.config.default_language,
                 tts_provider |-> m.config.tts_provider,
                 llm_provider |-> IF m.content_cleaner
                                  THEN m.config.llm_provider ELSE None,
                 use_ssml |-> m.args.use_ssml,
                 summarize |-> m.args.summarize,
                 llm |-> [chunk_strategy |-> m.config.chunk_strategy,
                          max_chunk_chars |-> LlmMaxChunkChars]],
     artifacts |->
        [artifact_dir |-> m.stem,
         raw_text |-> Path(m.stem, "raw"),
         cleaned_text |-> IF m.processed_output_path # NoPath
                             /\ ~m.args.summarize
                          THEN m.processed_output_path ELSE NoPath,
         summary_text |-> IF m.processed_output_path # NoPath
                             /\ m.args.summarize
                          THEN m.processed_output_path ELSE NoPath,
         ssml_text |-> IF m.args.use_ssml /\ m.content_cleaner
                       THEN Path(m.stem, "ssml") ELSE NoPath,
         chunks_dir |-> m.stem,
         chunks |-> m.chunk_files]]

\* lines 331 and 369: open(job_path, 'w') creates or truncates the file at
\* the manifest's path; the manifest is dumped into it afterwards
OpenManifestFile ==
    /\ main.pc \in {"dry_manifest", "manifest"}
    /\ main' = [main EXCEPT !.pc = IF main.pc = "dry_manifest"
                                   THEN "dry_dump" ELSE "dump"]
    /\ fs' = [fs EXCEPT !.manifest = Put(@, main.stem, NoManifest),
                        !.partial = @ \cup {main.stem}]
    /\ UNCHANGED <<env, writer, cvars, lvars, xvars>>

\* the files after the manifest of m was dumped and its file closed
manifest_saved(files, m) ==
    [files EXCEPT !.manifest = Put(@, m.stem, m.written[1]),
                  !.partial = @ \ {m.stem}]

\* lines 301-334: a dry run writes the manifest and returns
WriteDryRunManifest ==
    /\ main.pc = "dry_dump"
    /\ main' = [main EXCEPT !.written = <<job_manifest(main)>>,
                            !.pc = "done", !.exit_code = 0]
    /\ fs' = manifest_saved(fs, main')
    /\ writer' = Put(writer, main.stem, OptionsOf(main.argv))
    /\ UNCHANGED <<env, cvars, lvars, xvars>>

\* lines 336-341 and TextToSpeechProcessor.synthesize: the language is
\* mapped once more, the provider writes the mp3 or raises
Synthesize ==
    /\ main.pc = "synth"
    /\ \E raises \in BOOLEAN :
         IF raises \/ main.final_chunks = <<>>
         THEN /\ main' = [main EXCEPT !.pc = "done", !.exit_code = 1,
                             !.fatal = IF main.final_chunks = <<>>
                                       THEN "no_chunks" ELSE "tts",
                             !.calls.tts = IF main.final_chunks = <<>>
                                           THEN @ ELSE @ + 1]
              /\ fs' = fs
         ELSE /\ main' = [main EXCEPT
                             !.tts_language = get_language_mapping(
                                                 main.config.default_language),
                             !.calls.tts = @ + 1,
                             !.audio = TRUE,
                             !.pc = "manifest"]
              /\ fs' = fs
    /\ UNCHANGED <<env, writer, cvars, lvars, xvars>>

\* lines 343-371: the manifest of a full run
WriteManifest ==
    /\ main.pc = "dump"
    /\ main' = [main EXCEPT !.written = <<job_manifest(main)>>,
                            !.pc = "done", !.exit_code = 0]
    /\ fs' = manifest_saved(fs, main')
    /\ writer' = Put(writer, main.stem, OptionsOf(main.argv))
    /\ UNCHANGED <<env, cvars, lvars, xvars>>

\* the steps of main() inside its try block
RunningPcs ==
    {"source", "clean", "chunk", "ssml", "dry_manifest", "dry_dump", "synth",
     "manifest", "dump"}

\* what a manifest file holds when its dump stops part-way: nothing yet, or
\* the first keys of the manifest
partial_manifests(m) ==
    {NoManifest,
     [NoManifest EXCEPT !.inputs = job_manifest(m).inputs,
                        !.outputs = job_manifest(m).outputs]}

\* an interrupt that ends the run with exit code 0
InterruptExitZero ==
    /\ main.pc \in RunningPcs
    /\ main' = [IdleMain EXCEPT !.pc = "done", !.exit_code = 0,
                                !.argv = main.argv,
                                !.fatal = "interrupt",
                                !.interrupted_at = main.pc]
    /\ IF main.pc \in {"dry_dump", "dump"}
       THEN \E content \in partial_manifests(main) :
              fs' = [fs EXCEPT !.manifest = Put(@, main.stem, content)]
       ELSE fs' = fs
    /\ UNCHANGED <<env, writer, cvars, lvars, xvars>>

\* lines 373-375: Ctrl-C at any step ends the run with exit code 1 and
\* the locals of main() are gone; the files stay as the step left them, a
\* manifest being dumped stays partial
Interrupt ==
    /\ main.pc \in RunningPcs
    /\ main' = [IdleMain EXCEPT !.pc = "done", !.exit_code = 1,
                                !.argv = main.argv,
                                !.fatal = "interrupt",
                                !.interrupted_at = main.pc]
    /\ IF main.pc \in {"dry_dump", "dump"}
       THEN \E content \in partial_manifests(main) :
              fs' = [fs EXCEPT !.manifest = Put(@, main.stem, content)]
       ELSE fs' = fs
    /\ UNCHANGED <<env, writer, cvars, lvars, xvars>>

\* the process ends; the next invocation starts from fresh locals
ProcessExit ==
    /\ main.pc = "done"
    /\ main' = IdleMain
    /\ UNCHANGED <<fs, env, writer, cvars, lvars, xvars>>

Init ==
    /\ IdleChunker
    /\ IdleCleaner
    /\ IdleOthers
    /\ fs = EmptyFs
    /\ writer = <<>>
    /\ env \in [llm_up : BOOLEAN, pages : Pages, universe : Universes]
    /\ main = IdleMain

Next ==
    \/ StartRun
    \/ SourceText
    \/ CleanOrSummarize
    \/ ChunkAndSave
    \/ ApplySsml
    \/ OpenManifestFile
    \/ WriteDryRunManifest
    \/ Synthesize
    \/ WriteManifest
    \/ Interrupt
    \/ ProcessExit

Spec == Init /\ [][Next]_vars

\* the step does not end the run with a failure
Completes == main'.pc = "done" => main'.exit_code = 0

\* the invocations in which nothing fails and nobody interrupts: every run
\* that ends has completed, dry or full
NextCompleted ==
    \/ StartRun /\ Completes
    \/ SourceText /\ Completes
    \/ CleanOrSummarize /\ Completes
    \/ ChunkAndSave
    \/ ApplySsml /\ Completes
    \/ OpenManifestFile
    \/ WriteDryRunManifest
    \/ Synthesize /\ Completes
    \/ WriteManifest
    \/ ProcessExit

SpecCompleted == Init /\ [][NextCompleted]_vars

\* ------------------------------------------------------------------------
\* preclean_text, called on texts of lines
\* ------------------------------------------------------------------------

\* the lines of a text: empty, blank, a word, the word indented, two
\* words' length, a page number, a digit, a URL
PreLines ==
    {<<>>, <<" ">>, <<"x">>, <<" ", "x">>, <<"x", "x">>,
     <<"P", "a", "g", "e", " ", "2">>, <<"7">>,
     <<"h", "t", "t", "p", ":", "/", "/", "u">>}

MaxLines == 3

\* the texts of up to MaxLines lines, with and without a last newline
PreTexts ==
    {join_lines(ls) \o nl :
        ls \in UNION {[1..n -> PreLines] : n \in 0..MaxLines},
        nl \in {<<>>, <<"\n">>}}

InitPreclean ==
    /\ pre \in [text : PreTexts, min_repeats : {2, PrecleanMinRepeats},
                 max_line_len : {1, PrecleanMaxLineLen}, called : {"none"},
                 out : {<<>>}, again : {<<>>}]
    /\ IdleSynth
    /\ IdleConf
    /\ IdleChunker
    /\ IdlePipeline
    /\ IdleCleaner

\* preclean_text(text, min_repeats, max_line_len)
CallPreclean ==
    /\ pre.called = "none"
    /\ pre' = [pre EXCEPT
                  !.called = "once",
                  !.out = preclean_text_with(pre.text, pre.min_repeats,
                                             pre.max_line_len)]
    /\ UNCHANGED <<cvars, pvars, lvars, synth, conf>>

\* preclean_text called on its own output
CallPrecleanAgain ==
    /\ pre.called = "once"
    /\ pre' = [pre EXCEPT
                  !.called = "twice",
                  !.again = preclean_text_with(pre.out, pre.min_repeats,
                                               pre.max_line_len)]
    /\ UNCHANGED <<cvars, pvars, lvars, synth, conf>>

NextPreclean == CallPreclean \/ CallPrecleanAgain

SpecPreclean == InitPreclean /\ [][NextPreclean]_vars

\* ------------------------------------------------------------------------
\* TextToSpeechProcessor.synthesize and the chunking TTS providers
\* (OpenAITTS.synthesize, AWSTTS.synthesize)
\* ------------------------------------------------------------------------

\* the texts given to a provider: one that fits a request, two that are
\* chunked, one that chunks to nothing
SynthTexts ==
    {<<"A", ".">>, DocText, <<"A", ".", " ", "B", ".", " ", "C", ".">>,
     DotsText}

\* max_chars of a provider, scaled to the texts
SynthMaxChars == 4

\* tts.speaking_rate in hundredths: below, at and above the bounds of
\* validate_speaking_rate, the default 1.0 and a rate in between
SpeakingRates == {24, 25, 100, 150, 200, 201}

MinSpeakingRate == 25
MaxSpeakingRate == 200

\* a validation that refuses the bounds as well
validate_speaking_rate_open(speaking_rate) ==
    speaking_rate > MinSpeakingRate /\ speaking_rate < MaxSpeakingRate

\* validate_speaking_rate: TRUE if it returns, FALSE if it raises
validate_speaking_rate(speaking_rate) ==
    ~(speaking_rate < MinSpeakingRate \/ speaking_rate > MaxSpeakingRate)

InitSynth ==
    /\ synth \in {[IdleSynthCall EXCEPT !.text = t, !.speaking_rate = r,
                                        !.pc = "processor"] :
                      t \in SynthTexts, r \in SpeakingRates}
    /\ IdlePre
    /\ IdleConf
    /\ IdleChunker
    /\ IdlePipeline
    /\ IdleCleaner

\* processors.py lines 239-249: the speaking rate is validated unless it
\* is 1.0, then the provider is called
ProcessorSynthesize ==
    /\ synth.pc = "processor"
    /\ synth' = IF synth.speaking_rate # 100
                   /\ ~validate_speaking_rate(synth.speaking_rate)
                THEN [synth EXCEPT !.pc = "raised",
                                   !.error = "speaking_rate"]
                ELSE [synth EXCEPT !.pc = "provider"]
    /\ UNCHANGED <<cvars, pvars, lvars, pre, conf>>

\* a text within max_chars is one request whose audio goes to the output
\* file; a longer text is chunked
ProviderSynthesize ==
    /\ synth.pc = "provider"
    /\ \/ /\ Len(synth.text) <= SynthMaxChars
          /\ \E raises \in BOOLEAN :
                synth' = IF raises
                         THEN [synth EXCEPT !.pc = "raised", !.error = "tts"]
                         ELSE [synth EXCEPT !.pc = "returned",
                                            !.requests = @ + 1,
                                            !.output = TRUE]
       \/ /\ Len(synth.text) > SynthMaxChars
          /\ synth' = [synth EXCEPT
                          !.chunks = chunk_text(synth.text, SynthMaxChars),
                          !.i = 0,
                          !.pc = IF chunk_text(synth.text, SynthMaxChars) = <<>>
                                 THEN "combine" ELSE "chunk"]
    /\ UNCHANGED <<cvars, pvars, lvars, pre, conf>>

\* the ways the work on one chunk ends: the request fails, writing the
\* response fails before or after the file was created, loading the file
\* fails, or all three succeed
ChunkOutcomes == {"request_fails", "write_fails_no_file", "write_fails_file",
                  "load_fails", "ok"}

\* one round of the loop: the temporary file is named and recorded, the
\* chunk is requested, the response written to the file, the file loaded
SynthesizeChunk ==
    /\ synth.pc = "chunk"
    /\ \E outcome \in ChunkOutcomes :
         synth' = [synth EXCEPT
                      !.temp_files = Append(@, synth.i),
                      !.requests = IF outcome = "request_fails"
                                   THEN @ ELSE @ + 1,
                      !.disk = IF outcome \in {"request_fails",
                                               "write_fails_no_file"}
                               THEN @ ELSE @ \cup {synth.i},
                      !.failed = outcome # "ok",
                      !.error = IF outcome = "ok" THEN @ ELSE outcome,
                      !.i = @ + 1,
                      !.pc = IF outcome # "ok" THEN "finally"
                             ELSE IF synth.i + 1 = Len(synth.chunks)
                             THEN "combine" ELSE "chunk"]
    /\ UNCHANGED <<cvars, pvars, lvars, pre, conf>>

\* the segments are combined and exported to the output file; without a
\* segment audio_segments[0] raises; the export can fail, leaving the
\* output file or not
CombineAndExport ==
    /\ synth.pc = "combine"
    /\ \E raises \in BOOLEAN, written \in BOOLEAN :
         synth' = IF synth.chunks = <<>>
                  THEN [synth EXCEPT !.pc = "finally", !.failed = TRUE,
                                     !.error = "no_segment"]
                  ELSE IF raises
                  THEN [synth EXCEPT !.pc = "finally", !.failed = TRUE,
                                     !.error = "export_fails",
                                     !.output = written]
                  ELSE [synth EXCEPT !.pc = "finally", !.output = TRUE]
    /\ UNCHANGED <<cvars, pvars, lvars, pre, conf>>

\* temporary files removed only when nothing failed
disk_after_cleanup_on_success(disk, temp_files, failed) ==
    IF failed THEN disk
    ELSE disk \ {temp_files[k] : k \in DOMAIN temp_files}

\* the finally block: every recorded temporary file that exists is removed
disk_after_cleanup(disk, temp_files, failed) ==
    disk \ {temp_files[k] : k \in DOMAIN temp_files}

\* the finally block runs, then synthesize returns or the exception goes on
Cleanup ==
    /\ synth.pc = "finally"
    /\ synth' = [synth EXCEPT
                    !.disk = disk_after_cleanup(@, synth.temp_files,
                                                synth.failed),
                    !.pc = IF synth.failed THEN "raised" ELSE "returned"]
    /\ UNCHANGED <<cvars, pvars, lvars, pre, conf>>

NextSynth ==
    \/ ProcessorSynthesize
    \/ ProviderSynthesize
    \/ SynthesizeChunk
    \/ CombineAndExport
    \/ Cleanup

SpecSynth == InitSynth /\ [][NextSynth]_vars

\* ------------------------------------------------------------------------
\* Config: the files it loads and the CLI flags set on it
\* ------------------------------------------------------------------------

\* the dot-paths of the model, as <<section, name>>
TtsProviderKey == <<"tts", "provider">>
DefaultLanguageKey == <<"tts", "default_language">>
LanguageMappingsKey == <<"tts", "language_mappings">>
LlmProviderKey == <<"llm", "provider">>

ConfigKeys ==
    {TtsProviderKey, DefaultLanguageKey, LanguageMappingsKey, LlmProviderKey}

\* the values of a file, one per key
FileValues(tts_provider, default_language, language_mappings, llm_provider) ==
    [k \in ConfigKeys |->
       CASE k = TtsProviderKey -> tts_provider
         [] k = DefaultLanguageKey -> default_language
         [] k = LanguageMappingsKey -> language_mappings
         [] k = LlmProviderKey -> llm_provider]

\* data/default_config.yml: every key, with values that may or may not be
\* the defaults written at the call sites of Config.get
DefaultFiles ==
    {FileValues(tp, dl, LanguageMappings, "openai") :
       tp \in {"gtts", "openai"}, dl \in {"en", "es"}}

\* tts.language_mappings of a user file: fr_ca is sent to fr, and fr to the
\* code of a provider that wants a region
UserLanguageMappings ==
    [l \in {"fr_ca", "fr"} |-> IF l = "fr_ca" THEN "fr" ELSE "fr-FR"]

\* the values a user file gives to the keys it holds
UserFileValues == FileValues("aws", "fr", UserLanguageMappings, "gemini")

\* yaml.safe_load of a file that holds the keys ks with the values vals:
\* a dict of sections, each a dict of names
nested(ks, vals) ==
    [s \in {k[1] : k \in ks} |->
       [n \in {k[2] : k \in {j \in ks : j[1] = s}} |-> vals[<<s, n>>]]]

\* the defaults written at the call sites of Config.get
HardDefault(k) ==
    CASE k = TtsProviderKey -> "gtts"
      [] k = DefaultLanguageKey -> "en"
      [] k = LanguageMappingsKey -> <<>>
      [] k = LlmProviderKey -> "openai"

\* Config.get for a path of two names
Config_get(config, k, default) ==
    IF k[1] \in DOMAIN config /\ k[2] \in DOMAIN config[k[1]]
    THEN config[k[1]][k[2]]
    ELSE default

\* Config.set for a path of two names
Config_set(config, k, value) ==
    Put(config, k[1],
        Put(IF k[1] \in DOMAIN config THEN config[k[1]] ELSE <<>>,
            k[2], value))

\* Config.get_language_mapping on a loaded configuration
Config_get_language_mapping(config, lang_code) ==
    IF lang_code \in DOMAIN Config_get(config, LanguageMappingsKey, <<>>)
    THEN Config_get(config, LanguageMappingsKey, <<>>)[lang_code]
    ELSE lang_code

\* Config._load_config: the user (or --config) file as it is, or the
\* default file if there is none
load_config(c) ==
    IF c.missing
    THEN nested(ConfigKeys, c.default_file)
    ELSE nested(c.user_keys, c.user_file)

InitConfig ==
    /\ conf \in {[IdleConfig EXCEPT !.pc = "start", !.default_file = d,
                                    !.missing = m, !.user_keys = ks,
                                    !.user_file = UserFileValues,
                                    !.args = a] :
                     d \in DefaultFiles, m \in BOOLEAN,
                     ks \in SUBSET ConfigKeys,
                     a \in [cleaner_llm : {None, "openai"},
                            ttsprovider : {None, "openai"},
                            lang : {None, "es_la", "fr_ca", "de"}]}
    /\ conf.missing => conf.user_keys = {}
    /\ IdlePre
    /\ IdleSynth
    /\ IdleChunker
    /\ IdlePipeline
    /\ IdleCleaner

\* cli.py line 153: config = Config(args.config)
ConstructConfig ==
    /\ conf.pc = "start"
    /\ conf' = [conf EXCEPT !.config = load_config(conf),
                            !.pc = "cleaner_llm"]
    /\ UNCHANGED <<cvars, pvars, lvars, pre, synth>>

\* cli.py lines 156-157
OverrideLlmProvider ==
    /\ conf.pc = "cleaner_llm"
    /\ conf' = [conf EXCEPT
                   !.config = IF conf.args.cleaner_llm # None
                              THEN Config_set(@, LlmProviderKey,
                                              conf.args.cleaner_llm)
                              ELSE @,
                   !.pc = "ttsprovider"]
    /\ UNCHANGED <<cvars, pvars, lvars, pre, synth>>

\* cli.py lines 159-160
OverrideTtsProvider ==
    /\ conf.pc = "ttsprovider"
    /\ conf' = [conf EXCEPT
                   !.config = IF conf.args.ttsprovider # None
                              THEN Config_set(@, TtsProviderKey,
                                              conf.args.ttsprovider)
                              ELSE @,
                   !.pc = "lang"]
    /\ UNCHANGED <<cvars, pvars, lvars, pre, synth>>

\* cli.py lines 162-165: --lang goes through the mapping table of the
\* loaded configuration
OverrideLang ==
    /\ conf.pc = "lang"
    /\ conf' = [conf EXCEPT
                   !.config = IF conf.args.lang # None
                              THEN Config_set(@, DefaultLanguageKey,
                                     Config_get_language_mapping(
                                         @, conf.args.lang))
                              ELSE @,
                   !.pc = "ready"]
    /\ UNCHANGED <<cvars, pvars, lvars, pre, synth>>

\* cli.py lines 338-339 and 349, processors.py lines 219-223: the manifest
\* records tts.default_language; synthesize is given the same value and
\* passes it through the mapping table before it calls the provider
SynthesizeInLanguage ==
    /\ conf.pc = "ready"
    /\ LET language == Config_get(conf.config, DefaultLanguageKey,
                                  HardDefault(DefaultLanguageKey))
       IN  conf' = [conf EXCEPT
                      !.manifest_lang = language,
                      !.tts_language =
                          Config_get_language_mapping(conf.config, language),
                      !.pc = "synthesized"]
    /\ UNCHANGED <<cvars, pvars, lvars, pre, synth>>

NextConfig ==
    \/ ConstructConfig
    \/ OverrideLlmProvider
    \/ OverrideTtsProvider
    \/ OverrideLang
    \/ SynthesizeInLanguage

SpecConfig == InitConfig /\ [][NextConfig]_vars

\* ------------------------------------------------------------------------
\* Properties of the chunkers
\* ------------------------------------------------------------------------
Terminators == {".", "!", "?"}

IsNonSpace(c) == ~IsSpace(c)
IsCore(c) == ~IsSpace(c) /\ c \notin Terminators

\* the non-whitespace characters of s, in order
NonSpace(s) == SelectSeq(s, IsNonSpace)

\* the characters of s that are neither whitespace nor sentence terminators
Core(s) == SelectSeq(s, IsCore)

Returned == called # "none" /\ ~raised

Range(f) == {f[i] : i \in DOMAIN f}

\* the words the word loop of chunk_text iterates over, for a text t
SentenceWords(t) ==
    UNION {Range(str_split(str_strip(s) \o <<".">>)) :
           s \in {x \in Range(split_sentences(t)) : str_strip(x) # <<>>}}

\* the words of the whole text and of each of its paragraphs
LoopWords ==
    SentenceWords(text)
    \cup UNION {SentenceWords(str_strip(p)) :
                p \in Range(re_split_paragraphs(text, <<>>))}

\* c is what is left of a word longer than max_length after its first
\* max_length characters were split off
IsForceSplitRemainder(c) ==
    \E w \in LoopWords :
        Len(w) > max_length /\ c = SubSeq(w, max_length + 1, Len(w))

\* C1: every chunk returned by either chunker has length <= max_length,
\* except a chunk that is the remainder of a force-split word.
C1_ChunkLengthBound ==
    Returned =>
        \A i \in DOMAIN chunks :
            Len(chunks[i]) <= max_length \/ IsForceSplitRemainder(chunks[i])

\* C2 (as claimed): the chunks, concatenated in order, have the same
\* sequence of non-whitespace characters as the input text.
C2_RoundTripNonWhitespace ==
    Returned => NonSpace(str_concat(chunks)) = NonSpace(text)

\* C2 (amended): whenever a chunker returns, the chunks, concatenated in
\* order, have the same sequence of characters other than whitespace and
\* sentence terminators (. ! ?) as the input text.
C2_RoundTripModuloTerminators ==
    Returned => Core(str_concat(chunks)) = Core(text)

C2_Witness ==
    /\ Returned
    /\ Len(text) > max_length
    /\ Len(chunks) >= 2
    /\ Core(text) # <<>>
    /\ NonSpace(str_concat(chunks)) # NonSpace(text)
    /\ Core(str_concat(chunks)) = Core(text)

\* number of core characters in the first k strings of seq
CoreLenUpTo(seq, k) == Len(Core(str_concat(SubSeq(seq, 1, k))))

InputWords == str_split(text)

\* number of core characters of input word j that lie in chunk i
PieceLen(j, i) ==
    Max(0, Min(CoreLenUpTo(InputWords, j), CoreLenUpTo(chunks, i))
           - Max(CoreLenUpTo(InputWords, j - 1), CoreLenUpTo(chunks, i - 1)))

\* a chunk boundary falls strictly inside input word j
WordDivided(j) ==
    \E i \in 1..(Len(chunks) - 1) :
        /\ CoreLenUpTo(InputWords, j - 1) < CoreLenUpTo(chunks, i)
        /\ CoreLenUpTo(chunks, i) < CoreLenUpTo(InputWords, j)

\* C3: a whitespace-delimited word of the input is divided across chunks
\* only if it is longer than max_length, and every word longer than
\* max_length is cut into pieces of at most max_length characters each.
C3_WordSplitPolicy ==
    Returned =>
        \A j \in DOMAIN InputWords :
            /\ WordDivided(j) => Len(InputWords[j]) > max_length
            /\ Len(InputWords[j]) > max_length =>
                   \A i \in DOMAIN chunks : PieceLen(j, i) <= max_length

\* the chunk holds more than one sentence: a period before its last character
HoldsSeveralSentences(c) == \E k \in 1..(Len(c) - 1) : c[k] = "."

\* C4: chunk_text puts several sentences into one chunk only while the
\* chunk, joining spaces included, stays within max_length; "A. B. C." with
\* max_length 4 gives the chunks "A.", "B.", "C.".
C4_SentenceCombining ==
    called = "chunk_text" =>
        /\ Len(text) > max_length =>
               \A i \in DOMAIN chunks :
                   HoldsSeveralSentences(chunks[i])
                       => Len(chunks[i]) <= max_length
        /\ (text = ScenarioText /\ max_length = ScenarioMaxLength) =>
               chunks = << <<"A", ".">>, <<"B", ".">>, <<"C", ".">> >>

\* C5: for a text no longer than max_length both chunkers return the text
\* itself as the only chunk.
C5_IdentityOnSmallInput ==
    (called # "none" /\ Len(text) <= max_length) =>
        ~raised /\ chunks = <<text>>

C5_Witness ==
    /\ called = "chunk_text_paragraph_sentence_word"
    /\ Len(text) = max_length
    /\ Core(text) = text
    /\ chunks = <<text>>

\* C6 (as claimed): no chunk returned by chunk_text is empty after trimming.
C6_NoBlankChunk ==
    called = "chunk_text" =>
        \A i \in DOMAIN chunks : str_strip(chunks[i]) # <<>>

\* C6 (amended): for a text with at least one non-whitespace character, no
\* chunk returned by chunk_text is empty after trimming.
C6_NoBlankChunkOfNonBlankText ==
    (called = "chunk_text" /\ str_strip(text) # <<>>) =>
        \A i \in DOMAIN chunks : str_strip(chunks[i]) # <<>>

C6_Witness ==
    /\ called = "chunk_text"
    /\ Len(text) > max_length
    /\ str_strip(text) # text
    /\ Len(chunks) >= 2
    /\ \A i \in DOMAIN chunks : str_strip(chunks[i]) # <<>>

\* ------------------------------------------------------------------------
\* Properties of the pipeline
\* ------------------------------------------------------------------------

\* the run passed validation and went through the source-text step
PastSource ==
    /\ main.stem # None
    /\ main.pc \notin {"idle", "source"}
    /\ main.interrupted_at # "source"

\* the run was given a job file whose raw_text file existed
JobHasRawText == "raw_text" \in main.job_files

\* C7: a run whose job manifest names an existing raw text file never
\* extracts, and its text is the content of that file; any other run that
\* gets to the source step extracts exactly once and, unless the extraction
\* raised, the raw text file of its output holds what was extracted
C7_ResumeSkipsExtraction ==
    /\ main.pc \in {"idle", "source"} => main.calls.extract = 0
    /\ PastSource /\ JobHasRawText =>
          /\ main.calls.extract = 0
          /\ main.text = ReadFile(fs, main.job_data[1].artifacts.raw_text)
    /\ PastSource /\ ~JobHasRawText =>
          /\ main.calls.extract = 1
          /\ \/ main.pc = "done" /\ main.exit_code = 1 /\ main.text = <<>>
             \/ /\ main.stem \in DOMAIN fs.raw
                /\ fs.raw[main.stem] = main.text

\* a resumed run went through to its manifest without extracting
C7_Witness ==
    /\ main.pc = "done"
    /\ main.exit_code = 0
    /\ JobHasRawText
    /\ main.calls.extract = 0
    /\ main.text = DocText

\* the run was given a job file whose cleaned or summary text file existed
JobHasProcessedText ==
    main.job_files \cap {"cleaned_text", "summary_text"} # {}

\* C8: a run replaying a job manifest whose cleaned-text or summary-text
\* file exists issues no LLM clean or summarize call
C8_ReplayIssuesNoLlmCall ==
    JobHasProcessedText =>
        main.calls.clean = 0 /\ main.calls.summarize = 0

\* the run was given --job and nothing else, and wrote its manifest
ReplayedJobOnly ==
    /\ main.pc = "done"
    /\ main.exit_code = 0
    /\ main.argv.job # None
    /\ main.argv = [NoArgs EXCEPT !.job = main.argv.job]

\* C9: a run given only --job runs with the params recorded in the manifest:
\* the manifest it writes records the same language, providers, SSML flag,
\* summarize flag and chunking parameters
C9_ReplayUsesManifestParams ==
    ReplayedJobOnly => main.written[1].params = main.job_data[1].params

\* the run resumed, with the options of the run that wrote the job file and
\* for the same output, a job file all of whose artifacts existed
ResumedWithSameFlags ==
    /\ main.pc = "done"
    /\ main.exit_code = 0
    /\ main.job_data # <<>>
    /\ main.job_writer = <<OptionsOf(main.argv)>>
    /\ main.stem = main.job_data[1].outputs.mp3
    /\ \A k \in {"raw_text", "cleaned_text", "summary_text", "ssml_text"} :
          main.job_data[1].artifacts[k] # NoPath => k \in main.job_files

\* C10: a run that resumes from a manifest with the flags of the run that
\* wrote it writes an identical manifest
C10_ManifestRoundTrip ==
    ResumedWithSameFlags => main.written[1] = main.job_data[1]

\* the artifact paths a manifest records
recorded_paths(j) ==
    ({j.artifacts.raw_text, j.artifacts.cleaned_text, j.artifacts.summary_text,
      j.artifacts.ssml_text}
     \cup {j.artifacts.chunks[i] : i \in DOMAIN j.artifacts.chunks})
    \ {NoPath}

\* C11: once the manifest is written the run is over with exit code 0 and
\* the manifest file holds it completely; every run that ends with exit code
\* 0, full or dry, wrote its manifest, and that manifest records every
\* artifact file the run wrote (raw text, cleaned or summary text, SSML
\* text), the chunk directory and the chunk files in order; a full run
\* produced the audio, a dry run did not
C11_ManifestLastAndRecordsArtifacts ==
    /\ main.written # <<>> =>
          /\ main.pc = "done"
          /\ main.exit_code = 0
          /\ main.stem \in DOMAIN fs.manifest
          /\ main.stem \notin fs.partial
          /\ fs.manifest[main.stem] = main.written[1]
    /\ main.pc = "done" /\ main.exit_code = 0 =>
          /\ main.written # <<>>
          /\ main.produced \subseteq recorded_paths(main.written[1])
          /\ main.written[1].artifacts.chunks_dir = main.stem
          /\ main.written[1].artifacts.chunks = main.chunk_files
          /\ Len(main.chunk_files) = Len(main.chunks)
          /\ main.audio = ~main.argv.dry_run

\* a full run that wrote raw, cleaned and SSML text and a chunk file ended
\* with its manifest
C11_Witness ==
    /\ main.pc = "done"
    /\ main.exit_code = 0
    /\ ~main.argv.dry_run
    /\ {Path(main.stem, "raw"), Path(main.stem, "cleaned"),
        Path(main.stem, "ssml"), chunk_path(main.stem, 0)}
           \subseteq main.produced

\* C12: the file at a manifest's path is never partial: it is absent, or a
\* manifest some run wrote completely
C12_ManifestNeverPartial == fs.partial = {}

\* the run passed the clean-or-summarize step
PastClean ==
    \/ main.pc \in {"chunk", "ssml", "dry_manifest", "dry_dump", "synth",
                    "manifest", "dump"}
    \/ /\ main.pc = "done"
       /\ main.stem # None
       /\ main.fatal \in {None, "ssml", "tts", "no_chunks"}

LlmDisabled == main.argv.no_llm \/ main.argv.dry_run

\* the job's cleaned or summary text that a run without the LLM reuses
JobProcessedPath ==
    IF "cleaned_text" \in main.job_files
    THEN main.job_data[1].artifacts.cleaned_text
    ELSE main.job_data[1].artifacts.summary_text

\* C13: with --no-llm or --dry-run no clean or summarize call is made and
\* the text that goes to the chunk step is the job's cleaned or summary text
\* if the job names one that exists, else the raw text; with the LLM, a
\* --summarize run only summarizes and any other run only cleans
C13_StageSelection ==
    /\ LlmDisabled => main.calls.clean = 0 /\ main.calls.summarize = 0
    /\ LlmDisabled /\ PastClean =>
          main.processed_text =
              IF JobHasProcessedText THEN ReadFile(fs, JobProcessedPath)
              ELSE main.text
    /\ ~LlmDisabled /\ main.argv.summarize => main.calls.clean = 0
    /\ ~LlmDisabled /\ ~main.argv.summarize => main.calls.summarize = 0
    /\ ~LlmDisabled /\ PastClean =>
          IF main.argv.summarize THEN main.calls.summarize >= 1
          ELSE main.calls.clean >= 1

\* a run without the LLM chunked the job's cleaned text, not the raw text
C13_Witness ==
    /\ main.pc = "done"
    /\ main.exit_code = 0
    /\ LlmDisabled
    /\ "cleaned_text" \in main.job_files
    /\ main.processed_text # main.text
    /\ main.processed_text = fs.cleaned[main.job_data[1].artifacts.cleaned_text.stem]

\* C14: a dry run makes no TTS call and no LLM call (clean, summarize,
\* SSML), never reaches the synthesis, produces no audio, and once its text
\* is not empty nothing but an interrupt keeps it from writing its manifest
C14_DryRunStopsAfterChunk ==
    main.argv.dry_run =>
        /\ main.calls.tts = 0
        /\ main.calls.clean = 0
        /\ main.calls.summarize = 0
        /\ main.calls.ssml = 0
        /\ ~main.audio
        /\ main.pc \notin {"synth", "manifest", "dump"}
        /\ main.pc = "done" =>
              \/ /\ main.exit_code = 0
                 /\ main.written # <<>>
                 /\ main.written[1].artifacts.chunks = main.chunk_files
              \/ /\ main.exit_code = 1
                 /\ main.fatal \in {"arguments", "summarize", "job",
                                    "extract", "no_text", "interrupt"}

\* a dry run chunked its text and ended with its manifest
C14_Witness ==
    /\ main.argv.dry_run
    /\ main.pc = "done"
    /\ main.exit_code = 0
    /\ Len(main.chunks) >= 1
    /\ main.written # <<>>

\* the run passed the SSML step
PastSsml ==
    \/ main.pc \in {"dry_manifest", "dry_dump", "synth", "manifest", "dump"}
    \/ /\ main.pc = "done"
       /\ main.stem # None
       /\ main.fatal \in {None, "tts", "no_chunks"}

\* SSML was requested, the run is not a dry run, a content cleaner is
\* active and the TTS provider supports SSML
SsmlEnabled ==
    /\ main.argv.use_ssml
    /\ ~main.argv.dry_run
    /\ main.content_cleaner
    /\ main.config.tts_provider \in {"aws", "google"}

\* C15: apply_ssml is called only when SSML is enabled, and then once per
\* chunk; in every other case the chunks that go to the synthesis are the
\* plain chunks and the manifest records use_ssml false or no SSML text
C15_SsmlGating ==
    /\ main.calls.ssml > 0 => SsmlEnabled
    /\ PastSsml /\ SsmlEnabled => main.calls.ssml = Len(main.chunks)
    /\ PastSsml /\ ~SsmlEnabled => main.final_chunks = main.chunks
    /\ main.written # <<>> /\ ~SsmlEnabled =>
          \/ ~main.written[1].params.use_ssml
          \/ main.written[1].artifacts.ssml_text = NoPath

\* SSML was requested for a provider that supports it but the LLM was off:
\* the plain chunks were synthesized
C15_Witness ==
    /\ main.pc = "done"
    /\ main.exit_code = 0
    /\ main.argv.use_ssml
    /\ main.config.tts_provider = "aws"
    /\ ~main.content_cleaner
    /\ main.audio
    /\ Len(main.chunks) >= 1
    /\ main.final_chunks = main.chunks

\* --summarize was given with --no-llm or without --cleaner-llm
SummarizeRefused ==
    /\ main.argv.summarize
    /\ main.argv.no_llm \/ main.argv.cleaner_llm = None

\* C16: a command line with --summarize and --no-llm, or with --summarize
\* and no --cleaner-llm, ends with exit code 1 with nothing constructed
\* (configuration, processors, providers), nothing extracted, no provider
\* called and no file written
C16_SummarizeValidation ==
    SummarizeRefused /\ main.pc # "idle" =>
        /\ main.pc = "done"
        /\ main.exit_code = 1
        /\ main.fatal \in {"arguments", "summarize"}
        /\ main.constructed = {}
        /\ main.calls = NoCalls
        /\ main.produced = {}
        /\ main.written = <<>>

\* a valid command line was refused for its --summarize
C16_Witness ==
    /\ main.pc = "done"
    /\ main.fatal = "summarize"
    /\ SummarizeRefused

\* exactly one input form was given: --pdf with --mp3, or --job
ExactlyOneInputForm ==
    (main.argv.pdf # None /\ main.argv.mp3 # None) # (main.argv.job # None)

\* C17: argument validation accepts a command line exactly if it gives one
\* of the two input forms and not the other (a job file that does not
\* exist is refused as well)
C17_ExactlyOneInputForm ==
    /\ main.pc # "idle" /\ main.fatal # "arguments" => ExactlyOneInputForm
    /\ main.fatal = "arguments" =>
          \/ ~ExactlyOneInputForm
          \/ /\ main.argv.job # None
             /\ main.argv.job \notin DOMAIN fs.manifest

\* C19: whatever LLM calls fail, a run whose extracted text is not empty
\* is never ended by its content: it ends with exit code 1 only for its
\* arguments, its job file, a failing extraction, empty extracted text, a
\* failing TTS provider or an interrupt
C19_LlmFailuresNeverAbort ==
    main.pc = "done" /\ main.exit_code = 1 =>
        main.fatal \in {"arguments", "summarize", "job", "extract",
                        "no_text", "tts", "interrupt"}

\* ------------------------------------------------------------------------
\* Properties of the ContentCleaner methods
\* ------------------------------------------------------------------------

\* the pieces of the pre-cleaned text of the method called
CleanerPieces == llm_pieces(cleaner.text, cleaner.max_chunk_chars).chunks

\* clean_text's answer to a piece, or the piece when call i fails
CleanOutput(pieces, i) ==
    IF i \in cleaner.fails THEN pieces[i] ELSE clean_text(pieces[i], TRUE)

\* C18: clean of a non-empty text returns, having made one clean_text call
\* per piece of the pre-cleaned text, in order; its result is the outputs
\* joined with a blank line, the output of a failing call being its piece
C18_CleanOneCallPerChunk ==
    cleaner.called = "clean" /\ cleaner.text # <<>> =>
        /\ ~cleaner.result.raised
        /\ Len(cleaner.result.log) = Len(CleanerPieces)
        /\ \A i \in DOMAIN cleaner.result.log :
              /\ cleaner.result.log[i].method = "clean_text"
              /\ cleaner.result.log[i].input = CleanerPieces[i]
        /\ cleaner.result.text =
              join_paragraphs([i \in DOMAIN CleanerPieces |->
                                  CleanOutput(CleanerPieces, i)])

\* the overall target word count of the summary of the text
CleanerTargetWords ==
    target_words_of(word_count(preclean_text(cleaner.text)))

\* C20: summarize makes one summarize_text call per piece, in order; with
\* one piece that summary is the result and nothing else is called; with
\* more pieces one merge_summaries call on the joined summaries follows,
\* and then one expand_summary call exactly if the merged summary has fewer
\* words than int(target_words * tolerance); nothing else is called
C20_SummarizeCallProtocol ==
    cleaner.called = "summarize" /\ cleaner.text # <<>> =>
        IF cleaner.result.raised THEN cleaner.result.log = <<>>
        ELSE LET log == cleaner.result.log
                 n == Len(CleanerPieces)
             IN  /\ Len(log) >= n
                 /\ \A i \in 1..n :
                       /\ log[i].method = "summarize_text"
                       /\ log[i].input = CleanerPieces[i]
                 /\ n = 1 => Len(log) = 1 /\ cleaner.result.text = log[1].output
                 /\ n > 1 =>
                       /\ Len(log) \in {n + 1, n + 2}
                       /\ log[n + 1].method = "merge_summaries"
                       /\ log[n + 1].input =
                             join_paragraphs([i \in 1..n |-> log[i].output])
                       /\ Len(log) = n + 2 <=>
                             word_count(log[n + 1].output)
                                 < min_merged_words(CleanerTargetWords)
                       /\ Len(log) = n + 2 =>
                             /\ log[n + 2].method = "expand_summary"
                             /\ log[n + 2].input = log[n + 1].output
                       /\ cleaner.result.text = log[Len(log)].output

\* three pieces were summarized, merged, and the merged summary expanded
C20_Witness ==
    /\ cleaner.called = "summarize"
    /\ ~cleaner.result.raised
    /\ Len(CleanerPieces) = 3
    /\ Len(cleaner.result.log) = 5
    /\ cleaner.result.log[5].method = "expand_summary"

\* ------------------------------------------------------------------------
\* Properties of preclean_text
\* ------------------------------------------------------------------------

\* the lines of the text preclean_text was called on
PreInputLines == str_splitlines(pre.text, <<>>)

\* a line the pre-clean is to remove: a non-blank line that is short and
\* frequent, a page number, only digits, or a bare URL
PreToRemove(l) ==
    LET stripped == str_strip(l)
    IN  /\ stripped # <<>>
        /\ \/ /\ Len(stripped) <= pre.max_line_len
              /\ line_count(PreInputLines, stripped) >= pre.min_repeats
           \/ is_page_number(str_lower(stripped))
           \/ all_digits(stripped)
           \/ is_url(stripped)

PreToKeep(l) == ~PreToRemove(l)

\* C21: the lines of the pre-cleaned text are the lines of the input, in
\* order and unchanged, without the lines to remove; blank lines are kept
C21_PrecleanRemovesOnlyListedLines ==
    pre.called # "none" =>
        str_splitlines(pre.out, <<>>) = SelectSeq(PreInputLines, PreToKeep)

\* C22: pre-cleaning the pre-cleaned text changes nothing
C22_PrecleanIdempotent ==
    pre.called = "twice" => pre.again = pre.out

\* ------------------------------------------------------------------------
\* Properties of the synthesis
\* ------------------------------------------------------------------------

\* C23: when a synthesize call has returned or raised, no per-chunk
\* temporary file is left on disk, wherever it failed
C23_NoTemporaryFileRemains ==
    synth.pc \in {"returned", "raised"} => synth.disk = {}

\* the second chunk's file could not be loaded, with the first chunk's file
\* written before it; the call raised with both files removed
C23_Witness ==
    /\ synth.pc = "raised"
    /\ synth.error = "load_fails"
    /\ Len(synth.temp_files) = 2
    /\ synth.requests = 2
    /\ synth.disk = {}

\* the speaking rate is outside [0.25, 2.0]
RateOutOfRange ==
    synth.speaking_rate < MinSpeakingRate \/ synth.speaking_rate > MaxSpeakingRate

\* C24: with a speaking rate outside [0.25, 2.0] the call raises for the
\* rate before the provider is called: no TTS request is issued and no
\* temporary or output file is written; a rate inside the interval, its
\* bounds included, is never refused
C24_SpeakingRateFailFast ==
    /\ RateOutOfRange =>
          /\ synth.pc \in {"idle", "processor", "raised"}
          /\ synth.pc = "raised" => synth.error = "speaking_rate"
          /\ synth.requests = 0
          /\ synth.disk = {}
          /\ synth.temp_files = <<>>
          /\ ~synth.output
    /\ ~RateOutOfRange => synth.error # "speaking_rate"

\* a rate just above 2.0 was refused
C24_Witness ==
    /\ synth.speaking_rate = MaxSpeakingRate + 1
    /\ synth.pc = "raised"
    /\ synth.error = "speaking_rate"

\* ------------------------------------------------------------------------
\* Properties of the configuration
\* ------------------------------------------------------------------------

\* the value of a key in the overlay of the user file on the default file
FileLayers(k) ==
    IF ~conf.missing /\ k \in conf.user_keys
    THEN conf.user_file[k]
    ELSE conf.default_file[k]

\* the value of a key in the overlay default file, user file, CLI flags
Layered(k) ==
    CASE k = LlmProviderKey /\ conf.args.cleaner_llm # None ->
           conf.args.cleaner_llm
      [] k = TtsProviderKey /\ conf.args.ttsprovider # None ->
           conf.args.ttsprovider
      [] k = DefaultLanguageKey /\ conf.args.lang # None ->
           IF conf.args.lang \in DOMAIN FileLayers(LanguageMappingsKey)
           THEN FileLayers(LanguageMappingsKey)[conf.args.lang]
           ELSE conf.args.lang
      [] OTHER -> FileLayers(k)

\* what a key resolves to in the loaded configuration
Resolved(k) == Config_get(conf.config, k, HardDefault(k))

\* C25: once the flags are applied, every key resolves to its value in the
\* key-by-key overlay default file, user file, CLI flags
C25_ConfigLayering ==
    conf.pc = "ready" => \A k \in ConfigKeys : Resolved(k) = Layered(k)

\* ------------------------------------------------------------------------
\* Properties of the files a run leaves
\* ------------------------------------------------------------------------

\* C26: when a run has written its manifest, the chunk directory of its
\* output path holds one file per chunk of this run, file i with chunk i,
\* and no other chunk file, and the manifest names those files in order
C26_ChunkDirHoldsLatestChunks ==
    main.written # <<>> =>
        /\ fs.chunks[main.stem] = main.chunks
        /\ main.written[1].artifacts.chunks =
              [i \in DOMAIN main.chunks |-> chunk_path(main.stem, i - 1)]

C29_RecordedRawTextIsTheRunsText ==
    main.written # <<>> =>
        /\ PathExists(fs, main.written[1].artifacts.raw_text)
        /\ ReadFile(fs, main.written[1].artifacts.raw_text) = main.text

\* ------------------------------------------------------------------------
\* Totality of the paragraph chunker
\* ------------------------------------------------------------------------

\* C28: chunk_text_paragraph_sentence_word returns a list of chunks for
\* every text and every max_length >= 1; it never raises
C28_ParagraphChunkerTotal ==
    called = "chunk_text_paragraph_sentence_word" => ~raised

\* ------------------------------------------------------------------------
\* The language of the synthesis
\* ------------------------------------------------------------------------

\* C30: with --lang given, the language handed to the TTS provider is the
\* --lang value passed once through the mapping table of the loaded
\* configuration, and it is the language the manifest records
C30_LanguageMappedOnce ==
    conf.pc = "synthesized" /\ conf.args.lang # None =>
        /\ conf.tts_language =
              Config_get_language_mapping(conf.config, conf.args.lang)
        /\ conf.tts_language = conf.manifest_lang

====
